---- MODULE Spec2Model ----
(***************************************************************************)
(* Model of the MindEase conversational session and crisis-escalation      *)
(* path: the HTTP message endpoint (backend/src/routes/chat.js), the       *)
(* send_message socket handler (backend/src/services/socketService.js),    *)
(* the AI adapter with its local crisis detection                          *)
(* (backend/src/services/geminiService.js) and the ChatSession and         *)
(* CrisisAlert documents.                                                  *)
(*                                                                         *)
(* Node runs each handler without preemption between two awaits, so one    *)
(* action of the model is the code of a handler from one await to the      *)
(* next: the database read or write, or the AI call, that the await waits  *)
(* for, followed by the synchronous code up to the next await.             *)
(*                                                                         *)
(* Texts are sequences of words; String.includes is modelled as "occurs as *)
(* a contiguous run of words", toLowerCase word by word.                   *)
(*                                                                         *)
(* Specifications:                                                         *)
(*   Spec            two message requests on either channel, one session   *)
(*   AccessSpec      the session routes and join_chat with their answers   *)
(*   ValidationSpec  one message request with every kind of input          *)
(*   LiveSpec        ValidationSpec under the event loop's scheduling      *)
(*   CrisisSpec      the crisis routes (backend/src/routes/crisis.js)      *)
(*   ClassifySpec    detectCrisis called on its own                        *)
(*   EquivSpec       one message sent once through each channel            *)
(*   InfluenceSpec   one message sent twice, the AI answering as it likes  *)
(*   ConnectionSpec  socket connections, typing and read notifications     *)
(***************************************************************************)
EXTENDS Integers, Sequences, FiniteSets, TLC

\* ---------------------------------------------------------------- bounds
MaxOps == 2          \* message requests (HTTP posts and send_message events) per behaviour
MaxSessions == 1     \* chat sessions created per behaviour
MaxAlerts == 1       \* alerts in the collection when POST /crisis/alert is called
MaxInterventions == 1  \* interventions recorded on one alert
MaxSockets == 2      \* socket connections open at one time

\* ------------------------------------------------------- program constants
MinRiskLevel == 1        \* crisis.js:23
MaxRiskLevel == 10       \* crisis.js:23
CrisisThreshold == 3     \* chat.js:177, socketService.js:169
CriticalFrom == 4        \* chat.js:334, socketService.js:312
TitleWindow == 4         \* chat.js:202, socketService.js:194
MaxLevel == 5            \* geminiService.js:144
HighSeverity == 5        \* geminiService.js:152
MediumSeverity == 3      \* geminiService.js:155
LowSeverity == 2         \* geminiService.js:157
PatternSeverity == 3     \* geminiService.js:140
FallbackConfidence == 3  \* geminiService.js:250 (tenths)
BaseConfidence == 5      \* geminiService.js:230 (tenths)

Users == {"alice", "bob"}
SessionIds == 1..MaxSessions
OpIds == 1..MaxOps
Channels == {"http", "socket"}
DefaultTitle == <<"new", "conversation">>
Titles == {<<"renamed">>}

Max(a, b) == IF a >= b THEN a ELSE b
Min(a, b) == IF a <= b THEN a ELSE b

\* ------------------------------------------------ geminiService: detection
\* this.crisisKeywords; a text is the sequence of its words, and the Hindi
\* phrases are written in Latin letters
crisisKeywords ==
  [en |-> { <<"suicide">>, <<"kill", "myself">>, <<"end", "it", "all">>,
            <<"not", "worth", "living">>, <<"hopeless">>, <<"can't", "go", "on">>,
            <<"want", "to", "die">> },
   es |-> { <<"suicidio">>, <<"matarme">>, <<"terminar", "todo">>,
            <<"no", "vale", "la", "pena", "vivir">>, <<"sin", "esperanza">>,
            <<"quiero", "morir">> },
   hi |-> { <<"aatmahatya">>, <<"khud", "ko", "maarna">>, <<"sab", "kuchh", "khatm">>,
            <<"jeene", "ka", "matlab", "nahin">>, <<"niraasha">>,
            <<"marna", "chaahta", "hoon">> }]

highRisk ==
  { <<"suicide">>, <<"kill", "myself">>, <<"want", "to", "die">>, <<"suicidio">>,
    <<"aatmahatya">> }
mediumRisk ==
  { <<"hopeless">>, <<"can't", "go", "on">>, <<"end", "it", "all">>, <<"sin", "esperanza">>,
    <<"niraasha">> }

\* the words of the model that are not in lower case, with their lower case
upperCase ==
  [I |-> "i", WANT |-> "want", TO |-> "to", DIE |-> "die", Everything |-> "everything",
   Feels |-> "feels", Hopeless |-> "hopeless", SUICIDIO |-> "suicidio"]

\* String.prototype.toLowerCase
toLowerCase(text) ==
  [i \in DOMAIN text |-> IF text[i] \in DOMAIN upperCase THEN upperCase[text[i]] ELSE text[i]]

\* crisisPatterns: each regular expression written out as the word runs its
\* alternations match
crisisPatterns ==
  { <<"i", a, b, c, "anymore">> :
      <<a, b, c>> \in {"can't", "cannot"} \X {"take", "handle"} \X {"it", "this"} }
  \cup { <<"everything", a, b>> : <<a, b>> \in {"is", "feels"} \X {"hopeless", "pointless"} }
  \cup { <<"no", "one", a, b>> \o c :
      <<a, b, c>> \in {"would", "will"} \X {"miss", "care"} \X {<<"if", "i">>, <<"about", "me">>} }
  \cup { <<"i'm">> \o a \o <<b>> :
      <<a, b>> \in {<<"a">>, <<"such", "a">>} \X {"burden", "failure"} }

\* String.prototype.includes on word sequences
Includes(text, part) ==
  \E i \in 1..(Len(text) - Len(part) + 1) : SubSeq(text, i, i + Len(part) - 1) = part

getCrisisSeverity(keyword) ==
  IF \E k \in highRisk : Includes(toLowerCase(keyword), toLowerCase(k)) THEN HighSeverity
  ELSE IF \E k \in mediumRisk : Includes(toLowerCase(keyword), toLowerCase(k))
  THEN MediumSeverity
  ELSE LowSeverity

RECURSIVE MaxOf(_)
MaxOf(S) ==
  IF S = {} THEN 0
  ELSE LET x == CHOOSE y \in S : TRUE IN Max(x, MaxOf(S \ {x}))

\* detectCrisis with the keywords looked up in the message as written
detectCrisisAsWritten(message, language) ==
  LET keywords == IF language \in DOMAIN crisisKeywords
                  THEN crisisKeywords[language] ELSE crisisKeywords["en"]
      fromKeywords ==
        MaxOf({ getCrisisSeverity(k) : k \in { kw \in keywords : Includes(message, kw) } })
      fromPatterns ==
        IF \E p \in crisisPatterns : Includes(toLowerCase(message), p)
        THEN PatternSeverity ELSE 0
  IN Min(Max(fromKeywords, fromPatterns), MaxLevel)

\* detectCrisis: the keywords are looked up in messageLower, the patterns are
\* matched with the i flag
detectCrisis(message, language) ==
  LET keywords == IF language \in DOMAIN crisisKeywords
                  THEN crisisKeywords[language] ELSE crisisKeywords["en"]
      messageLower == toLowerCase(message)
      fromKeywords ==
        MaxOf({ getCrisisSeverity(k) :
                  k \in { kw \in keywords : Includes(messageLower, toLowerCase(kw)) } })
      fromPatterns ==
        IF \E p \in crisisPatterns : Includes(toLowerCase(message), p)
        THEN PatternSeverity ELSE 0
  IN Min(Max(fromKeywords, fromPatterns), MaxLevel)

\* -------------------------------------------------- geminiService: replies
\* inputs of the model: the texts a client sends
Contents ==
  { <<>>,
    <<"good", "day">>,
    <<"life", "is", "not", "worth", "living">>,
    <<"everything", "feels", "pointless">>,
    <<"i", "want", "to", "die">> }

MessageTypes == {"text"}

\* what the language-model service does with one generateResponse call:
\*   fail      - the first generateContent call rejects, times out or returns no text
\*   ok        - a reply, and an analysis that yields sentiment and a keywords array
\*               (parsed JSON, or one of the two local fallback analyses)
\*   nokw      - a reply, and parsed analysis JSON without a keywords array
AiOutcomes ==
  { [kind |-> "fail", sentiment |-> "neutral", keywords |-> <<>>] }
  \cup { [kind |-> "ok", sentiment |-> s, keywords |-> k] :
           s \in {"negative"}, k \in {<<"stress">>} }
  \cup { [kind |-> "nokw", sentiment |-> "negative", keywords |-> <<>>] }

\* a message without metadata (user messages, the socket handler's fallback message)
NoMeta ==
  [kind |-> "none", sentiment |-> "none", hasKeywords |-> FALSE, keywords |-> <<>>,
   crisisLevel |-> 0, confidence |-> 0]

\* calculateConfidence, in tenths, of the reply the model's AI returns: a short
\* text with an empathy marker and no resource reference
calculateConfidence(long, hasResources, hasEmpathy) ==
  Min(BaseConfidence + (IF long THEN 2 ELSE 0) + (IF hasResources THEN 2 ELSE 0)
        + (IF hasEmpathy THEN 1 ELSE 0), 10)

fallbacks == [en |-> "gemini_fallback_en", es |-> "gemini_fallback_es"]

getFallbackResponse(language) ==
  [response |-> IF language \in DOMAIN fallbacks THEN fallbacks[language] ELSE fallbacks["en"],
   metadata |-> [kind |-> "fallback", sentiment |-> "neutral", hasKeywords |-> FALSE,
                 keywords |-> <<>>, crisisLevel |-> 0, confidence |-> FallbackConfidence]]

\* generateResponse with the analysis spread after the local crisis level
\* ({crisisLevel, ...metadata}): a crisisLevel field of the analysis wins
generateResponseAnalysisLast(message, language, outcome) ==
  IF outcome.kind = "fail" THEN getFallbackResponse(language)
  ELSE [response |-> "ai_reply",
        metadata |-> [kind |-> "ai", sentiment |-> outcome.sentiment,
                      hasKeywords |-> (outcome.kind = "ok"),
                      keywords |-> IF outcome.kind = "ok" THEN outcome.keywords ELSE <<>>,
                      crisisLevel |-> IF "crisisLevel" \in DOMAIN outcome
                                      THEN outcome.crisisLevel
                                      ELSE detectCrisis(message, language),
                      confidence |-> calculateConfidence(FALSE, FALSE, TRUE)]]

\* generateResponse: the crisis level is computed locally before the AI call and
\* overrides whatever the analysis returns ({...metadata, crisisLevel, language,
\* confidence}: a crisisLevel or confidence field of the analysis JSON is
\* replaced); any failure of the first AI call is caught and answered with
\* getFallbackResponse
generateResponse(message, language, outcome) ==
  IF outcome.kind = "fail" THEN getFallbackResponse(language)
  ELSE [response |-> "ai_reply",
        metadata |-> [kind |-> "ai", sentiment |-> outcome.sentiment,
                      hasKeywords |-> (outcome.kind = "ok"),
                      keywords |-> IF outcome.kind = "ok" THEN outcome.keywords ELSE <<>>,
                      crisisLevel |-> detectCrisis(message, language),
                      confidence |-> calculateConfidence(FALSE, FALSE, TRUE)]]

\* ------------------------------------------------------------------ state
VARIABLES
  sessions,   \* ChatSession collection: sessionId -> persisted document
  alerts,     \* CrisisAlert collection, in insertion order
  ops,        \* message requests: position in the handler and its local variables
  rooms,      \* socket.io rooms chat_<sessionId>: the users whose socket joined
  reply,      \* the last response of a session, join or crisis-alert operation
  pending,    \* an intervention request between its findOne and its save
  probe,      \* a call of detectCrisis: its arguments and its result
  sockets,    \* the connected sockets: socket id -> authenticated user
  activeUsers,  \* SocketService.activeUsers: userId -> socket id
  emitted     \* the last event a typing or read handler emitted to a room

vars == <<sessions, alerts, ops, rooms, reply, pending, probe, sockets, activeUsers, emitted>>

DefaultContext == [userMood |-> "none", topics |-> <<>>, crisisLevel |-> 0]

\* user.preferredLanguage of the two users of the model
preferredLanguage == [alice |-> "en", bob |-> "es"]

\* new ChatSession({userId, sessionId, language, title}) with the schema defaults
NewSession(u) ==
  [userId |-> u, isActive |-> TRUE, title |-> DefaultTitle, messages |-> <<>>,
   sessionType |-> "general", context |-> DefaultContext,
   language |-> preferredLanguage[u]]

\* the fields of a loaded document a handler assigns to
Local(doc) == [title |-> doc.title, sessionType |-> doc.sessionType, context |-> doc.context]

NoResponse == [status |-> 0, fields |-> {}]

\* a request not yet received
IdleOp ==
  [pc |-> "idle", channel |-> "http", user |-> "alice", sid |-> 0, content |-> <<>>,
   messageType |-> "text", language |-> "en", loadedLen |-> 0, base |-> Local(NewSession("alice")),
   doc |-> Local(NewSession("alice")), assignedContext |-> FALSE, pushed |-> <<>>,
   ai |-> getFallbackResponse("en"), events |-> <<>>, response |-> NoResponse]

Message(sender, content, messageType, metadata, o) ==
  [sender |-> sender, content |-> content, messageType |-> messageType,
   metadata |-> metadata, op |-> o]

Event(name, to, payload) == [name |-> name, to |-> to, payload |-> payload]

\* what a session, join or crisis-alert operation answered: the HTTP status or
\* the socket event, and the session whose document the answer carries (0: none)
Reply(name, u, id, status, session) ==
  [name |-> name, user |-> u, id |-> id, status |-> status, session |-> session]

NoReply == Reply("none", "alice", 0, "none", 0)

\* no intervention request in flight
NoIntervention == [pc |-> "idle", user |-> "alice", alert |-> 0, type |-> "none", status |-> "active"]

\* detectCrisis not called yet
NoProbe == [text |-> <<>>, locale |-> "en", level |-> -1]

\* nothing emitted to a room by a typing or read handler yet
NoEmit == [name |-> "none", from |-> "alice", room |-> 0]

Init ==
  /\ sessions = << >>
  /\ alerts = <<>>
  /\ ops = [o \in OpIds |-> IdleOp]
  /\ rooms = [s \in SessionIds |-> {}]
  /\ reply = NoReply
  /\ pending = NoIntervention
  /\ probe = NoProbe
  /\ sockets = << >>
  /\ activeUsers = << >>
  /\ emitted = NoEmit

\* findOne with the userId condition left out of the query
findOneOfAnyUser(sid, u) == sid \in DOMAIN sessions /\ sessions[sid].isActive

\* ChatSession.findOne({sessionId, userId, isActive: true})
findOne(sid, u) ==
  sid \in DOMAIN sessions /\ sessions[sid].userId = u /\ sessions[sid].isActive

\* ------------------------------------------------- session CRUD (chat.js)
\* POST /sessions
CreateSession(u) ==
  /\ Len(sessions) < MaxSessions
  /\ sessions' = Append(sessions, NewSession(u))
  /\ UNCHANGED <<alerts, ops, rooms, reply, pending, probe, sockets, activeUsers, emitted>>

\* PUT /sessions/:sessionId : findOneAndUpdate({sessionId, userId}, {title})
RenameSession(u, sid, title) ==
  /\ sid \in DOMAIN sessions
  /\ sessions[sid].userId = u
  /\ sessions' = [sessions EXCEPT ![sid].title = title]
  /\ UNCHANGED <<alerts, ops, rooms, reply, pending, probe, sockets, activeUsers, emitted>>

\* DELETE /sessions/:sessionId : findOneAndUpdate({sessionId, userId}, {isActive: false})
CloseSession(u, sid) ==
  /\ sid \in DOMAIN sessions
  /\ sessions[sid].userId = u
  /\ sessions' = [sessions EXCEPT ![sid].isActive = FALSE]
  /\ UNCHANGED <<alerts, ops, rooms, reply, pending, probe, sockets, activeUsers, emitted>>

\* join_chat
handleJoinChat(u, sid) ==
  /\ findOne(sid, u)
  /\ rooms' = [rooms EXCEPT ![sid] = @ \cup {u}]
  /\ UNCHANGED <<sessions, alerts, ops, reply, pending, probe, sockets, activeUsers, emitted>>

\* ------------------------------------------- shared pieces of both handlers
NoPayload == Message("none", <<>>, "text", NoMeta, 0)

\* a word of 5001 letters; every other word of the model is a short one, and
\* every text without it has fewer than 50 characters
LongWord == "a_5001_times"

\* content.length > 5000
TooLong(content) == \E i \in DOMAIN content : content[i] = LongWord

\* content.substring(0, 50) + (content.length > 50 ? '...' : '')
TitleOf(content) ==
  IF TooLong(content) THEN <<"the_first_50_characters", "...">> ELSE content

\* new CrisisAlert({...}) in handleCrisisAlert and handleCrisisDetection
NewAlert(u, message, metadata, o) ==
  [userId |-> u, triggerMessage |-> message,
   severity |-> IF metadata.crisisLevel >= CriticalFrom THEN "critical" ELSE "high",
   riskLevel |-> metadata.crisisLevel, status |-> "active", interventions |-> <<>>,
   op |-> o]

IsCrisis(ai) == ai.metadata.crisisLevel >= CrisisThreshold

\* session.context.crisisLevel = ...; session.sessionType = 'crisis'
MarkCrisis(op) ==
  [op EXCEPT !.doc.context.crisisLevel = op.ai.metadata.crisisLevel,
             !.doc.sessionType = "crisis"]

\* session.title = ... if it is the first meaningful exchange
UpdateTitle(op) ==
  IF op.loadedLen + Len(op.pushed) <= TitleWindow /\ op.doc.title = DefaultTitle
  THEN [op EXCEPT !.doc.title = TitleOf(op.content)]
  ELSE op

\* save as a replacement of the stored array by the handler's copy of it
saveWholeArray(stored, op) ==
  [stored EXCEPT !.messages = SubSeq(@, 1, op.loadedLen) \o op.pushed]

\* save as a replacement of the stored document by the handler's copy, which
\* was read as an active session
saveWholeDocument(stored, op) ==
  [stored EXCEPT !.messages = @ \o op.pushed, !.context = op.doc.context,
                 !.title = op.doc.title, !.sessionType = op.doc.sessionType,
                 !.isActive = TRUE]

\* session.save(): Mongoose sends the changes made to the loaded document, not
\* the document: one $push of the pushed messages and a $set of each assigned
\* path whose value differs from the loaded one (session.context = {...} marks
\* the nested path context as a whole; session.context.crisisLevel = ... alone
\* marks that path). The update is atomic on the document, and neither a $push
\* nor the $set of a nested object or a scalar carries a version condition.
save(stored, op) ==
  [stored EXCEPT
     !.messages = @ \o op.pushed,
     !.context = IF op.assignedContext /\ op.doc.context # op.base.context
                 THEN op.doc.context
                 ELSE IF op.doc.context.crisisLevel # op.base.context.crisisLevel
                 THEN [@ EXCEPT !.crisisLevel = op.doc.context.crisisLevel]
                 ELSE @,
     !.title = IF op.doc.title # op.base.title THEN op.doc.title ELSE @,
     !.sessionType = IF op.doc.sessionType # op.base.sessionType
                     THEN op.doc.sessionType ELSE @]

\* the request as received, before the handler has done anything
Request(ch, u, sid, content, mt) ==
  [IdleOp EXCEPT !.channel = ch, !.user = u, !.sid = sid, !.content = content,
                 !.messageType = mt]

\* the handler returns: its copy of the document is gone (loadedLen stays, as
\* the record of what the request had read)
Done(op) ==
  [op EXCEPT !.pc = "done", !.base = IdleOp.base, !.doc = IdleOp.doc,
             !.assignedContext = FALSE, !.pushed = <<>>]

\* requests are numbered in the order they arrive
NextToArrive(o) ==
  /\ ops[o].pc = "idle"
  /\ \A p \in OpIds : p < o => ops[p].pc # "idle"

\* the loaded document with the user message pushed
Loaded(req, o) ==
  LET stored == sessions[req.sid]
  IN [req EXCEPT !.language = stored.language,
                 !.loadedLen = Len(stored.messages), !.base = Local(stored),
                 !.doc = Local(stored),
                 !.pushed = <<Message("user", req.content, req.messageType, NoMeta, o)>>,
                 !.pc = "ai"]

\* ------------------------------- POST /sessions/:sessionId/messages (chat.js)
\* validation, findOne, push of the user message, up to the AI call
HttpReceive(o, u, sid, content, mt) ==
  /\ NextToArrive(o)
  /\ LET req == Request("http", u, sid, content, mt)
     IN ops' = [ops EXCEPT ![o] =
          IF content = <<>> \/ TooLong(content) \/ mt \notin {"text", "voice"}
          THEN Done([req EXCEPT !.response = [status |-> 400, fields |-> {"errors"}]])
          ELSE IF ~findOne(sid, u)
          THEN Done([req EXCEPT !.response = [status |-> 404, fields |-> {"error"}]])
          ELSE Loaded(req, o)]
  /\ UNCHANGED <<sessions, alerts, rooms, reply, pending, probe, sockets, activeUsers, emitted>>

\* bot message, context and title: chat.js lines 183-204
HttpCompose(op, o) ==
  LET md == op.ai.metadata
      withBot == [op EXCEPT
                    !.pushed = Append(@, Message("bot", op.ai.response, "text", md, o)),
                    !.doc.context.userMood = md.sentiment,
                    !.doc.context.topics = @ \o (IF md.hasKeywords THEN md.keywords ELSE <<>>),
                    !.assignedContext = TRUE,
                    !.pc = "save"]
  IN UpdateTitle(withBot)

\* generateResponse returns; the crisis check
HttpAiReturn(o, outcome) ==
  /\ ops[o].pc = "ai" /\ ops[o].channel = "http"
  /\ LET op == [ops[o] EXCEPT
                  !.ai = generateResponse(ops[o].content, ops[o].language, outcome)]
     IN ops' = [ops EXCEPT ![o] =
          IF IsCrisis(op.ai) THEN [op EXCEPT !.pc = "alert"] ELSE HttpCompose(op, o)]
  /\ UNCHANGED <<sessions, alerts, rooms, reply, pending, probe, sockets, activeUsers, emitted>>

\* handleCrisisAlert: crisisAlert.save() inside try/catch, the error only logged
HttpCrisisAlert(o, saved) ==
  /\ ops[o].pc = "alert" /\ ops[o].channel = "http"
  /\ alerts' = IF saved
               THEN Append(alerts, NewAlert(ops[o].user, ops[o].content, ops[o].ai.metadata, o))
               ELSE alerts
  /\ ops' = [ops EXCEPT ![o] = HttpCompose(MarkCrisis(ops[o]), o)]
  /\ UNCHANGED <<sessions, rooms, reply, pending, probe, sockets, activeUsers, emitted>>

\* session.save() and res.json; a rejected save reaches the error middleware
HttpSave(o, saved) ==
  /\ ops[o].pc = "save" /\ ops[o].channel = "http"
  /\ sessions' = IF saved THEN [sessions EXCEPT ![ops[o].sid] = save(@, ops[o])] ELSE sessions
  /\ ops' = [ops EXCEPT ![o] =
       Done([ops[o] EXCEPT !.response =
               IF saved
               THEN [status |-> 200, fields |-> {"userMessage", "botMessage", "sessionContext"}]
               ELSE [status |-> 500, fields |-> {"error"}]])]
  /\ UNCHANGED <<alerts, rooms, reply, pending, probe, sockets, activeUsers, emitted>>

\* --------------------------------- send_message (socketService.js 116-244)
Emit(op, name, to, payload) == [op EXCEPT !.events = Append(@, Event(name, to, payload))]

\* the content check, findOne, push and broadcast of the user message, bot_typing
handleSendMessage(o, u, sid, content, mt) ==
  /\ NextToArrive(o)
  /\ LET req == Request("socket", u, sid, content, mt)
     IN ops' = [ops EXCEPT ![o] =
          IF content = <<>>
          THEN Done(Emit(req, "error", "socket", NoPayload))
          ELSE IF ~findOne(sid, u)
          THEN Done(Emit(req, "error", "socket", NoPayload))
          ELSE LET op == Loaded(req, o)
               IN Emit(Emit(op, "new_message", "room", op.pushed[1]),
                       "bot_typing", "room", NoPayload)]
  /\ UNCHANGED <<sessions, alerts, rooms, reply, pending, probe, sockets, activeUsers, emitted>>

\* getFallbackMessage(socket.user.preferredLanguage)
getFallbackMessage(language) ==
  LET messages == [en |-> "socket_fallback_en", es |-> "socket_fallback_es"]
  IN IF language \in DOMAIN messages THEN messages[language] ELSE messages["en"]

\* catch (aiError): bot_typing_stop, push of the fallback message, second save
CatchAiError(op, o) ==
  [Emit(op, "bot_typing_stop", "room", NoPayload) EXCEPT
     !.pushed = Append(@, Message("bot", getFallbackMessage(preferredLanguage[op.user]),
                                  "text", NoMeta, o)),
     !.pc = "save2"]

\* bot message, context and title: lines 175-196. Spreading metadata.keywords
\* throws a TypeError when it is not an array, after the bot message was pushed
SocketCompose(op, o) ==
  LET md == op.ai.metadata
      withBot == [op EXCEPT !.pushed = Append(@, Message("bot", op.ai.response, "text", md, o))]
  IN IF ~md.hasKeywords
     THEN CatchAiError(withBot, o)
     ELSE UpdateTitle([withBot EXCEPT
                         !.doc.context.userMood = md.sentiment,
                         !.doc.context.topics = @ \o md.keywords,
                         !.assignedContext = TRUE,
                         !.pc = "save"])

\* generateResponse returns; the crisis check
SocketAiReturn(o, outcome) ==
  /\ ops[o].pc = "ai" /\ ops[o].channel = "socket"
  /\ LET op == [ops[o] EXCEPT
                  !.ai = generateResponse(ops[o].content, ops[o].language, outcome)]
     IN ops' = [ops EXCEPT ![o] =
          IF IsCrisis(op.ai) THEN [op EXCEPT !.pc = "alert"] ELSE SocketCompose(op, o)]
  /\ UNCHANGED <<sessions, alerts, rooms, reply, pending, probe, sockets, activeUsers, emitted>>

\* handleCrisisDetection: crisisAlert.save() and the crisis_alert event inside
\* try/catch, the error only logged
handleCrisisDetection(o, saved) ==
  /\ ops[o].pc = "alert" /\ ops[o].channel = "socket"
  /\ alerts' = IF saved
               THEN Append(alerts, NewAlert(ops[o].user, ops[o].content, ops[o].ai.metadata, o))
               ELSE alerts
  /\ LET op == IF saved THEN Emit(ops[o], "crisis_alert", "socket", NoPayload) ELSE ops[o]
     IN ops' = [ops EXCEPT ![o] = SocketCompose(MarkCrisis(op), o)]
  /\ UNCHANGED <<sessions, rooms, reply, pending, probe, sockets, activeUsers, emitted>>

\* session.save() at line 198, then bot_typing_stop and the bot's new_message;
\* a rejected save is caught by catch (aiError)
SocketSave(o, saved) ==
  /\ ops[o].pc = "save" /\ ops[o].channel = "socket"
  /\ sessions' = IF saved THEN [sessions EXCEPT ![ops[o].sid] = save(@, ops[o])] ELSE sessions
  /\ ops' = [ops EXCEPT ![o] =
       IF saved
       THEN LET sent == Emit(Emit(ops[o], "bot_typing_stop", "room", NoPayload),
                             "new_message", "room", ops[o].pushed[Len(ops[o].pushed)])
            IN IF IsCrisis(ops[o].ai) THEN [Done(sent) EXCEPT !.pc = "resources"] ELSE Done(sent)
       ELSE CatchAiError(ops[o], o)]
  /\ UNCHANGED <<alerts, rooms, reply, pending, probe, sockets, activeUsers, emitted>>

\* session.save() at line 232 in catch (aiError), then the fallback's
\* new_message; a rejected save reaches the outer catch. The changes of a
\* rejected first save are still pending on the document and are sent again.
SocketSaveFallback(o, saved) ==
  /\ ops[o].pc = "save2" /\ ops[o].channel = "socket"
  /\ sessions' = IF saved THEN [sessions EXCEPT ![ops[o].sid] = save(@, ops[o])] ELSE sessions
  /\ ops' = [ops EXCEPT ![o] =
       Done(IF saved
            THEN Emit(ops[o], "new_message", "room", ops[o].pushed[Len(ops[o].pushed)])
            ELSE Emit(ops[o], "error", "socket", NoPayload))]
  /\ UNCHANGED <<alerts, rooms, reply, pending, probe, sockets, activeUsers, emitted>>

\* getCrisisResources returns; crisis_resources is emitted (database reads are
\* taken to succeed, only writes are rejected)
SocketCrisisResources(o) ==
  /\ ops[o].pc = "resources"
  /\ ops' = [ops EXCEPT ![o] = Done(Emit(ops[o], "crisis_resources", "room", NoPayload))]
  /\ UNCHANGED <<sessions, alerts, rooms, reply, pending, probe, sockets, activeUsers, emitted>>

\* ------------------------- the session operations with their answer recorded
\* ChatSession.findOneAndUpdate({sessionId, userId}, update): no isActive filter
findOneAndUpdate(sid, u) == sid \in DOMAIN sessions /\ sessions[sid].userId = u

\* GET /sessions/:sessionId
GetSession(u, sid) ==
  /\ reply' = IF findOne(sid, u) THEN Reply("get", u, sid, "200", sid)
                                 ELSE Reply("get", u, sid, "404", 0)
  /\ UNCHANGED <<sessions, alerts, ops, rooms, pending, probe, sockets, activeUsers, emitted>>

\* PUT /sessions/:sessionId with a valid title: the updated session is returned
PutSession(u, sid, title) ==
  /\ sessions' = IF findOneAndUpdate(sid, u) THEN [sessions EXCEPT ![sid].title = title]
                                             ELSE sessions
  /\ reply' = IF findOneAndUpdate(sid, u) THEN Reply("put", u, sid, "200", sid)
                                          ELSE Reply("put", u, sid, "404", 0)
  /\ UNCHANGED <<alerts, ops, rooms, pending, probe, sockets, activeUsers, emitted>>

\* DELETE /sessions/:sessionId: the answer is a message, not the session
DeleteSession(u, sid) ==
  /\ sessions' = IF findOneAndUpdate(sid, u) THEN [sessions EXCEPT ![sid].isActive = FALSE]
                                             ELSE sessions
  /\ reply' = IF findOneAndUpdate(sid, u) THEN Reply("delete", u, sid, "200", 0)
                                          ELSE Reply("delete", u, sid, "404", 0)
  /\ UNCHANGED <<alerts, ops, rooms, pending, probe, sockets, activeUsers, emitted>>

\* join_chat with socket.join placed before the session lookup
JoinChatBeforeLookup(u, sid) ==
  /\ rooms' = [rooms EXCEPT ![sid] = @ \cup {u}]
  /\ reply' = IF findOne(sid, u) THEN Reply("join", u, sid, "chat_joined", sid)
                                 ELSE Reply("join", u, sid, "error", 0)
  /\ UNCHANGED <<sessions, alerts, ops, pending, probe, sockets, activeUsers, emitted>>

\* join_chat: socket.join and chat_joined with the session, or the error event
JoinChat(u, sid) ==
  /\ rooms' = IF findOne(sid, u) THEN [rooms EXCEPT ![sid] = @ \cup {u}] ELSE rooms
  /\ reply' = IF findOne(sid, u) THEN Reply("join", u, sid, "chat_joined", sid)
                                 ELSE Reply("join", u, sid, "error", 0)
  /\ UNCHANGED <<sessions, alerts, ops, pending, probe, sockets, activeUsers, emitted>>

\* ------------------------------------------------- crisis routes (crisis.js)
Severities == {"low", "medium", "high", "critical"}
InterventionTypes == {"breathing_exercise", "hotline_provided", "resource_shared", "escalated"}

\* POST /crisis/alert: the alert is built from the body as sent
PostCrisisAlert(u, triggerMessage, severity, riskLevel, saved) ==
  LET valid == /\ triggerMessage # <<>> /\ ~TooLong(triggerMessage)
               /\ severity \in Severities
               /\ riskLevel \in MinRiskLevel..MaxRiskLevel
      alert == [userId |-> u, triggerMessage |-> triggerMessage, severity |-> severity,
                riskLevel |-> riskLevel, status |-> "active", interventions |-> <<>>,
                op |-> 0]
  IN /\ Len(alerts) < MaxAlerts
     /\ alerts' = IF valid /\ saved THEN Append(alerts, alert) ELSE alerts
     /\ reply' = Reply("alert", u, IF valid /\ saved THEN Len(alerts) + 1 ELSE 0,
                       IF ~valid THEN "400" ELSE IF saved THEN "201" ELSE "500", 0)
     /\ UNCHANGED <<sessions, ops, rooms, pending, probe, sockets, activeUsers, emitted>>

\* CrisisAlert.findOne / findOneAndUpdate({_id: alertId, userId})
findAlert(id, u) == id \in DOMAIN alerts /\ alerts[id].userId = u

\* PUT /crisis/alerts/:alertId/acknowledge
AcknowledgeAlert(u, id) ==
  /\ alerts' = IF findAlert(id, u) THEN [alerts EXCEPT ![id].status = "acknowledged"]
                                   ELSE alerts
  /\ reply' = Reply("acknowledge", u, id, IF findAlert(id, u) THEN "200" ELSE "404", 0)
  /\ UNCHANGED <<sessions, ops, rooms, pending, probe, sockets, activeUsers, emitted>>

\* POST /crisis/alerts/:alertId/intervention, up to the findOne: the handler
\* holds the alert as it read it
InterventionLoad(u, id, type) ==
  /\ pending.pc # "loaded"
  /\ pending' = IF type \in InterventionTypes /\ findAlert(id, u)
                THEN [pc |-> "loaded", user |-> u, alert |-> id, type |-> type,
                      status |-> alerts[id].status]
                ELSE [NoIntervention EXCEPT !.pc = "done", !.user = u, !.alert = id,
                                            !.type = type]
  /\ reply' = Reply("intervention", u, id,
                    IF type \notin InterventionTypes THEN "400"
                    ELSE IF findAlert(id, u) THEN "none" ELSE "404", 0)
  /\ UNCHANGED <<sessions, alerts, ops, rooms, probe, sockets, activeUsers, emitted>>

\* alert.save() as a replacement of the stored alert by the handler's copy
saveWholeAlert(stored, p) ==
  [stored EXCEPT !.interventions = Append(@, [type |-> p.type]), !.status = p.status]

\* alert.save() after interventions.push: one $push of the intervention
saveAlert(stored, p) ==
  [stored EXCEPT !.interventions = Append(@, [type |-> p.type])]

\* alert.save() and the answer of the intervention request
InterventionSave(saved) ==
  /\ pending.pc = "loaded"
  /\ saved => Len(alerts[pending.alert].interventions) < MaxInterventions
  /\ alerts' = IF saved THEN [alerts EXCEPT ![pending.alert] = saveAlert(@, pending)]
                        ELSE alerts
  /\ pending' = [pending EXCEPT !.pc = "done"]
  /\ reply' = Reply("intervention", pending.user, pending.alert,
                    IF saved THEN "200" ELSE "500", 0)
  /\ UNCHANGED <<sessions, ops, rooms, probe, sockets, activeUsers, emitted>>

\* ------------------------------ connections (socketService.js 47-81, 246-350)
SocketIds == 1..MaxSockets

\* the connected sockets of user u
SocketsOf(u) == { s \in DOMAIN sockets : sockets[s] = u }

\* a function with one key set, and with one key removed (Map.set, Map.delete)
MapSet(map, key, value) ==
  [k \in DOMAIN map \cup {key} |-> IF k = key THEN value ELSE map[k]]
MapDelete(map, key) == [k \in DOMAIN map \ {key} |-> map[k]]

\* handleConnection of an authenticated socket: activeUsers.set(userId, {...})
handleConnection(s, u) ==
  /\ s \notin DOMAIN sockets
  /\ sockets' = MapSet(sockets, s, u)
  /\ activeUsers' = MapSet(activeUsers, u, s)
  /\ UNCHANGED <<sessions, alerts, ops, rooms, reply, pending, probe, emitted>>

\* handleDisconnection: activeUsers.delete(userId)
handleDisconnection(s) ==
  /\ s \in DOMAIN sockets
  /\ sockets' = MapDelete(sockets, s)
  /\ activeUsers' = MapDelete(activeUsers, sockets[s])
  /\ UNCHANGED <<sessions, alerts, ops, rooms, reply, pending, probe, emitted>>

getActiveUsersCount == Cardinality(DOMAIN activeUsers)
isUserOnline(u) == u \in DOMAIN activeUsers

\* handleTypingStart: socket.to(`chat_${sessionId}`).emit('user_typing', {...})
handleTypingStart(s, sid) ==
  /\ s \in DOMAIN sockets
  /\ emitted' = [name |-> "user_typing", from |-> sockets[s], room |-> sid]
  /\ UNCHANGED <<sessions, alerts, ops, rooms, reply, pending, probe, sockets, activeUsers>>

\* handleTypingStop: socket.to(`chat_${sessionId}`).emit('user_typing_stop', {...})
handleTypingStop(s, sid) ==
  /\ s \in DOMAIN sockets
  /\ emitted' = [name |-> "user_typing_stop", from |-> sockets[s], room |-> sid]
  /\ UNCHANGED <<sessions, alerts, ops, rooms, reply, pending, probe, sockets, activeUsers>>

\* handleMessageRead: socket.to(`chat_${sessionId}`).emit('message_read', {...})
handleMessageRead(s, sid) ==
  /\ s \in DOMAIN sockets
  /\ emitted' = [name |-> "message_read", from |-> sockets[s], room |-> sid]
  /\ UNCHANGED <<sessions, alerts, ops, rooms, reply, pending, probe, sockets, activeUsers>>

\* the simulated transcription
Transcript == <<"this", "is", "a", "simulated", "transcription">>

\* handleVoiceMessage: handleSendMessage with the transcript as content
handleVoiceMessage(o, s, sid) ==
  /\ s \in DOMAIN sockets
  /\ handleSendMessage(o, sockets[s], sid, Transcript, "voice")

\* ----------------------------------------------- a call of detectCrisis alone
\* the texts classified: blank and plain ones, every table phrase and every
\* run a pattern matches, alone and inside a sentence, some written in upper
\* case, one with phrases of two severities
ClassifyPhrases ==
  crisisKeywords["en"] \cup crisisKeywords["es"] \cup crisisKeywords["hi"] \cup crisisPatterns

ClassifyTexts ==
  { <<>>, <<"good", "day">>, <<"I", "WANT", "TO", "DIE">>, <<"Everything", "Feels", "Hopeless">>,
    <<"SUICIDIO">>, <<"not", "worth", "living", "i", "want", "to", "die">> }
  \cup ClassifyPhrases
  \cup { <<"today">> \o p \o <<"really">> : p \in ClassifyPhrases }

\* the languages of the tables, and one without a table
ClassifyLocales == {"en", "es", "hi", "fr"}

InitClassify ==
  /\ sessions = << >>
  /\ alerts = <<>>
  /\ ops = [o \in OpIds |-> IdleOp]
  /\ rooms = [s \in SessionIds |-> {}]
  /\ reply = NoReply
  /\ pending = NoIntervention
  /\ probe \in [text : ClassifyTexts, locale : ClassifyLocales, level : {-1}]
  /\ sockets = << >>
  /\ activeUsers = << >>
  /\ emitted = NoEmit

\* this.detectCrisis(message, language)
Classify ==
  /\ probe.level = -1
  /\ probe' = [probe EXCEPT !.level = detectCrisis(probe.text, probe.locale)]
  /\ UNCHANGED <<sessions, alerts, ops, rooms, reply, pending, sockets, activeUsers, emitted>>

ClassifySpec == InitClassify /\ [][Classify]_vars

\* ------------------------------------------------------------ specification
Next ==
  \/ \E u \in Users : CreateSession(u)
  \/ \E u \in Users, sid \in SessionIds, t \in Titles : RenameSession(u, sid, t)
  \/ \E u \in Users, sid \in SessionIds : CloseSession(u, sid)
  \/ \E u \in Users, sid \in SessionIds : handleJoinChat(u, sid)
  \/ \E o \in OpIds, u \in Users, sid \in SessionIds, c \in Contents, mt \in MessageTypes :
       HttpReceive(o, u, sid, c, mt)
  \/ \E o \in OpIds, outcome \in AiOutcomes : HttpAiReturn(o, outcome)
  \/ \E o \in OpIds, saved \in BOOLEAN : HttpCrisisAlert(o, saved)
  \/ \E o \in OpIds, saved \in BOOLEAN : HttpSave(o, saved)
  \/ \E o \in OpIds, u \in Users, sid \in SessionIds, c \in Contents, mt \in MessageTypes :
       handleSendMessage(o, u, sid, c, mt)
  \/ \E o \in OpIds, outcome \in AiOutcomes : SocketAiReturn(o, outcome)
  \/ \E o \in OpIds, saved \in BOOLEAN : handleCrisisDetection(o, saved)
  \/ \E o \in OpIds, saved \in BOOLEAN : SocketSave(o, saved)
  \/ \E o \in OpIds, saved \in BOOLEAN : SocketSaveFallback(o, saved)
  \/ \E o \in OpIds : SocketCrisisResources(o)

Spec == Init /\ [][Next]_vars

\* The session operations with their answers, and one message request with a
\* plain text that the AI answers and the handler saves.
AccessContents == { <<"good", "day">> }
AccessOutcomes == { outcome \in AiOutcomes : outcome.kind = "ok" }

AccessNext ==
  \/ \E u \in Users : CreateSession(u)
  \/ \E u \in Users, sid \in SessionIds : GetSession(u, sid)
  \/ \E u \in Users, sid \in SessionIds, t \in Titles : PutSession(u, sid, t)
  \/ \E u \in Users, sid \in SessionIds : DeleteSession(u, sid)
  \/ \E u \in Users, sid \in SessionIds : JoinChat(u, sid)
  \/ \E u \in Users, sid \in SessionIds, c \in AccessContents : HttpReceive(1, u, sid, c, "text")
  \/ \E outcome \in AccessOutcomes : HttpAiReturn(1, outcome)
  \/ HttpSave(1, TRUE)
  \/ \E u \in Users, sid \in SessionIds, c \in AccessContents :
       handleSendMessage(1, u, sid, c, "text")
  \/ \E outcome \in AccessOutcomes : SocketAiReturn(1, outcome)
  \/ SocketSave(1, TRUE)

AccessSpec == Init /\ [][AccessNext]_vars

\* One message request with the inputs a client can send: blank, plain, crisis
\* and oversized texts, of a permitted kind or of another kind the message
\* schema stores.
ValidationContents ==
  { <<>>, <<"good", "day">>, <<"i", "want", "to", "die">>,
    <<LongWord>>, <<"i", "want", "to", "die", LongWord>> }
ValidationKinds == {"text", "voice", "image"}

ValidationNext ==
  \/ \E u \in Users : CreateSession(u)
  \/ \E u \in Users, sid \in SessionIds, c \in ValidationContents, mt \in ValidationKinds :
       HttpReceive(1, u, sid, c, mt)
  \/ \E outcome \in AiOutcomes : HttpAiReturn(1, outcome)
  \/ \E saved \in BOOLEAN : HttpCrisisAlert(1, saved)
  \/ \E saved \in BOOLEAN : HttpSave(1, saved)
  \/ \E u \in Users, sid \in SessionIds, c \in ValidationContents, mt \in ValidationKinds :
       handleSendMessage(1, u, sid, c, mt)
  \/ \E outcome \in AiOutcomes : SocketAiReturn(1, outcome)
  \/ \E saved \in BOOLEAN : handleCrisisDetection(1, saved)
  \/ \E saved \in BOOLEAN : SocketSave(1, saved)
  \/ \E saved \in BOOLEAN : SocketSaveFallback(1, saved)
  \/ SocketCrisisResources(1)

ValidationSpec == Init /\ [][ValidationNext]_vars

\* the steps the server takes by itself once what it awaits has settled: the
\* database operations complete (resolve or reject) and the handler goes on
HandlerStep ==
  \/ \E saved \in BOOLEAN : HttpCrisisAlert(1, saved)
  \/ \E saved \in BOOLEAN : HttpSave(1, saved)
  \/ \E saved \in BOOLEAN : handleCrisisDetection(1, saved)
  \/ \E saved \in BOOLEAN : SocketSave(1, saved)
  \/ \E saved \in BOOLEAN : SocketSaveFallback(1, saved)
  \/ SocketCrisisResources(1)

\* One message request under the scheduling of the event loop: a handler whose
\* awaited database operation has settled runs on. Nothing makes the language
\* model service answer, and await model.generateContent(prompt) has no timer
\* beside it, so the return of generateResponse is left to the service.
LiveSpec == Init /\ [][ValidationNext]_vars /\ WF_vars(HandlerStep)

\* the same with a language model service that always answers or fails
AnsweringSpec ==
  LiveSpec /\ WF_vars(\E outcome \in AiOutcomes : HttpAiReturn(1, outcome))
           /\ WF_vars(\E outcome \in AiOutcomes : SocketAiReturn(1, outcome))

\* The crisis routes, and one message request that raises an alert from chat.
CrisisContents == { <<"i", "want", "to", "die">> }
PostedMessages == { <<"good", "day">> }
PostedSeverities == {"critical", "extreme"}
PostedRiskLevels == {MaxRiskLevel}
PostedTypes == {"escalated"}
AlertIds == 1..MaxAlerts

CrisisNext ==
  \/ \E u \in Users : CreateSession(u)
  \/ \E u \in Users, sid \in SessionIds, c \in CrisisContents : HttpReceive(1, u, sid, c, "text")
  \/ \E outcome \in AccessOutcomes : HttpAiReturn(1, outcome)
  \/ HttpCrisisAlert(1, TRUE)
  \/ HttpSave(1, TRUE)
  \/ \E u \in Users, m \in PostedMessages, sv \in PostedSeverities, r \in PostedRiskLevels,
        saved \in BOOLEAN : PostCrisisAlert(u, m, sv, r, saved)
  \/ \E u \in Users, id \in AlertIds : AcknowledgeAlert(u, id)
  \/ \E u \in Users, id \in AlertIds, type \in PostedTypes : InterventionLoad(u, id, type)
  \/ \E saved \in BOOLEAN : InterventionSave(saved)

CrisisSpec == Init /\ [][CrisisNext]_vars

\* The same message sent once through each channel: request 1 is an HTTP post
\* on session 1, request 2 a send_message event on session 2, and the two
\* sessions of one user start in the same state, fresh or after one exchange.
EquivKinds == {"text", "voice"}

\* a session after one exchange over HTTP that the AI answered
Exchanged(u) ==
  LET fresh == NewSession(u)
      text == <<"good", "day">>
      req == [Request("http", u, 1, text, "text") EXCEPT
                !.language = fresh.language, !.base = Local(fresh), !.doc = Local(fresh),
                !.pushed = <<Message("user", text, "text", NoMeta, 0)>>,
                !.ai = generateResponse(text, fresh.language,
                                        CHOOSE outcome \in AiOutcomes : outcome.kind = "ok")]
  IN save(fresh, HttpCompose(req, 0))

InitEquiv ==
  /\ \E u \in Users : \E start \in {NewSession(u), Exchanged(u)} : sessions = <<start, start>>
  /\ alerts = <<>>
  /\ ops = [o \in OpIds |-> IdleOp]
  /\ rooms = [s \in SessionIds |-> {}]
  /\ reply = NoReply
  /\ pending = NoIntervention
  /\ probe = NoProbe
  /\ sockets = << >>
  /\ activeUsers = << >>
  /\ emitted = NoEmit

EquivNext ==
  \/ \E c \in Contents, mt \in EquivKinds : HttpReceive(1, sessions[1].userId, 1, c, mt)
  \/ \E outcome \in AiOutcomes : HttpAiReturn(1, outcome)
  \/ HttpCrisisAlert(1, TRUE)
  \/ HttpSave(1, TRUE)
  \/ handleSendMessage(2, ops[1].user, 2, ops[1].content, ops[1].messageType)
  \/ \E outcome \in AiOutcomes : SocketAiReturn(2, outcome)
  \/ handleCrisisDetection(2, TRUE)
  \/ SocketSave(2, TRUE)
  \/ SocketSaveFallback(2, TRUE)
  \/ SocketCrisisResources(2)

EquivSpec == InitEquiv /\ [][EquivNext]_vars

\* The same message processed twice through one channel, on two sessions of
\* one user that start in the same state, while the language model service
\* answers as it likes: analyses with or without a keywords array, and
\* analyses that carry a crisisLevel and a confidence of their own.
DownplayingOutcome ==
  [kind |-> "ok", sentiment |-> "positive", keywords |-> <<"stress">>,
   crisisLevel |-> 0, confidence |-> 10]
AlarmingOutcome ==
  [kind |-> "ok", sentiment |-> "crisis", keywords |-> <<"stress">>,
   crisisLevel |-> MaxLevel, confidence |-> 10]
InfluenceOutcomes ==
  { outcome \in AiOutcomes : outcome.kind # "fail" } \cup {DownplayingOutcome, AlarmingOutcome}

InfluenceNext ==
  \/ \E c \in Contents : HttpReceive(1, sessions[1].userId, 1, c, "text")
  \/ \E c \in Contents : handleSendMessage(1, sessions[1].userId, 1, c, "text")
  \/ ops[1].channel = "http" /\ HttpReceive(2, ops[1].user, 2, ops[1].content, "text")
  \/ ops[1].channel = "socket" /\ handleSendMessage(2, ops[1].user, 2, ops[1].content, "text")
  \/ \E o \in {1, 2}, outcome \in InfluenceOutcomes : HttpAiReturn(o, outcome)
  \/ \E o \in {1, 2} : HttpCrisisAlert(o, TRUE)
  \/ \E o \in {1, 2} : HttpSave(o, TRUE)
  \/ \E o \in {1, 2}, outcome \in InfluenceOutcomes : SocketAiReturn(o, outcome)
  \/ \E o \in {1, 2} : handleCrisisDetection(o, TRUE)
  \/ \E o \in {1, 2} : SocketSave(o, TRUE)
  \/ \E o \in {1, 2} : SocketSaveFallback(o, TRUE)
  \/ \E o \in {1, 2} : SocketCrisisResources(o)

InfluenceSpec == InitEquiv /\ [][InfluenceNext]_vars

\* The socket connections of the users with the events they send: connect and
\* disconnect, the typing and read notifications, and one text or voice
\* message that the AI answers and the handler saves.
ConnectionNext ==
  \/ \E u \in Users : CreateSession(u)
  \/ \E s \in SocketIds, u \in Users : handleConnection(s, u)
  \/ \E s \in SocketIds : handleDisconnection(s)
  \/ \E s \in SocketIds, sid \in SessionIds : handleTypingStart(s, sid)
  \/ \E s \in SocketIds, sid \in SessionIds : handleTypingStop(s, sid)
  \/ \E s \in SocketIds, sid \in SessionIds : handleMessageRead(s, sid)
  \/ \E s \in DOMAIN sockets, sid \in SessionIds, c \in AccessContents :
       handleSendMessage(1, sockets[s], sid, c, "text")
  \/ \E s \in SocketIds, sid \in SessionIds : handleVoiceMessage(1, s, sid)
  \/ \E outcome \in AccessOutcomes : SocketAiReturn(1, outcome)
  \/ SocketSave(1, TRUE)

ConnectionSpec == Init /\ [][ConnectionNext]_vars

\* ------------------------------------------------------- reading the state
\* the positions of the messages request o has in the persisted log of its session
Positions(o) ==
  IF ops[o].sid \in DOMAIN sessions
  THEN { i \in DOMAIN sessions[ops[o].sid].messages : sessions[ops[o].sid].messages[i].op = o }
  ELSE {}

\* request o was processed: a save of the session carried its messages
Persisted(o) == Positions(o) # {}

Log(o) == sessions[ops[o].sid].messages

AlertsOf(o) == { i \in DOMAIN alerts : alerts[i].op = o }

\* the Crisis Classifier's result for the text of request o
Level(o) == detectCrisis(ops[o].content, ops[o].language)

AiFailed(o) == ops[o].pc \notin {"idle", "ai"} /\ ops[o].ai.metadata.kind = "fallback"
AiAnswered(o) == ops[o].pc \notin {"idle", "ai"} /\ ops[o].ai.metadata.kind = "ai"

EventNames(o) == { ops[o].events[i].name : i \in DOMAIN ops[o].events }

IsPrefix(a, b) == Len(a) <= Len(b) /\ SubSeq(b, 1, Len(a)) = a

\* ------------------------------------------------------------------ claims

\* C1: when the AI collaborator fails on a processed message whose classifier
\* level is >= 3, a CrisisAlert of that level exists for the message and,
\* while the message is the session's latest, the session's crisisLevel is
\* that level.
C1_CrisisHandledWhenAiFails ==
  \A o \in OpIds :
    (Persisted(o) /\ AiFailed(o) /\ Level(o) >= CrisisThreshold) =>
      /\ \E i \in AlertsOf(o) : alerts[i].riskLevel = Level(o)
      /\ (Log(o)[Len(Log(o))].op = o =>
            sessions[ops[o].sid].context.crisisLevel = Level(o))

\* C2: a processed message has a CrisisAlert if and only if its classifier
\* level is >= 3.
C2_AlertIffLevelAtLeast3 ==
  \A o \in OpIds :
    (Persisted(o) /\ ops[o].pc = "done") =>
      ((AlertsOf(o) # {}) <=> (Level(o) >= CrisisThreshold))

\* two requests deliver the same inbound message
SameMessage(o1, o2) ==
  /\ o1 # o2
  /\ ops[o1].pc # "idle" /\ ops[o2].pc # "idle"
  /\ ops[o1].user = ops[o2].user /\ ops[o1].sid = ops[o2].sid
  /\ ops[o1].content = ops[o2].content /\ ops[o1].messageType = ops[o2].messageType

\* C3: when the same inbound message is delivered twice, it has at most one
\* CrisisAlert and at most one user/bot pair in the log.
C3_RedeliveryIsIdempotent ==
  \A o1, o2 \in OpIds :
    SameMessage(o1, o2) =>
      /\ Cardinality(AlertsOf(o1) \cup AlertsOf(o2)) <= 1
      /\ ~(Persisted(o1) /\ Persisted(o2))

\* C4: the stored crisisLevel of a session equals the classifier level of the
\* last user message of its log (stated for logs written with the AI answering).
C4_RiskLevelIsLatest ==
  \A sid \in DOMAIN sessions :
    LET log == sessions[sid].messages
        userAt == { i \in DOMAIN log : log[i].sender = "user" }
        clean == \A i \in DOMAIN log : log[i].sender = "bot" => log[i].metadata.kind = "ai"
    IN (userAt # {} /\ clean) =>
         LET last == CHOOSE i \in userAt : \A j \in userAt : j <= i
         IN sessions[sid].context.crisisLevel
              = detectCrisis(log[last].content, sessions[sid].language)

\* o1 and o2 ran concurrently on one session: each loaded the session before
\* the other's messages were in it
Concurrent(o1, o2) ==
  /\ o1 # o2 /\ Persisted(o1) /\ Persisted(o2) /\ ops[o1].sid = ops[o2].sid
  /\ \A i \in Positions(o2) : ops[o1].loadedLen < i
  /\ \A i \in Positions(o1) : ops[o2].loadedLen < i

\* C5: when two requests run concurrently on one session, the part of the log
\* they wrote is the user/bot pair of one followed by the user/bot pair of the
\* other.
C5_PairsNotInterleaved ==
  \A o1, o2 \in OpIds :
    Concurrent(o1, o2) =>
      \E a, b \in {o1, o2} : \E i \in DOMAIN Log(o1) :
        /\ a # b
        /\ Positions(a) = {i, i + 1} /\ Positions(b) = {i + 2, i + 3}
        /\ Log(o1)[i].sender = "user" /\ Log(o1)[i + 1].sender = "bot"
        /\ Log(o1)[i + 2].sender = "user" /\ Log(o1)[i + 3].sender = "bot"

\* the keywords the analysis returned for the bot messages of a log
RECURSIVE KeywordsOf(_)
KeywordsOf(log) ==
  IF log = <<>> THEN 0
  ELSE KeywordsOf(Tail(log))
       + (IF Head(log).sender = "bot" /\ Head(log).metadata.hasKeywords
          THEN Len(Head(log).metadata.keywords) ELSE 0)

\* C6: message operations on a session are serialized, so no update is lost:
\* the topics of a session hold the keywords of every bot message of its log.
C6_NoLostUpdate ==
  \A sid \in DOMAIN sessions :
    Len(sessions[sid].context.topics) = KeywordsOf(sessions[sid].messages)

\* C7: the message log of every session is append-only: no step removes a
\* session, shortens its log or changes a message already in it.
C7_LogAppendOnly ==
  [][\A sid \in DOMAIN sessions :
       /\ sid \in DOMAIN sessions'
       /\ IsPrefix(sessions[sid].messages, sessions'[sid].messages)]_vars

\* C7 witness: a session that was renamed and closed holds the messages of two
\* requests that ran concurrently, the later save made by the socket handler.
C7_Witness ==
  \E sid \in DOMAIN sessions :
    /\ ~sessions[sid].isActive
    /\ sessions[sid].title \in Titles
    /\ \E o1, o2 \in OpIds :
         /\ Concurrent(o1, o2) /\ ops[o1].sid = sid
         /\ ops[o1].pc = "done" /\ ops[o2].pc = "done"
         /\ ops[o1].channel = "http" /\ ops[o2].channel = "socket"
         /\ \A i \in Positions(o1) : \A j \in Positions(o2) : i < j

\* C8: every processed message has exactly one user message and exactly one
\* assistant message in the log.
C8_OneUserOneBot ==
  \A o \in OpIds :
    Persisted(o) =>
      /\ Cardinality({ i \in Positions(o) : Log(o)[i].sender = "user" }) = 1
      /\ Cardinality({ i \in Positions(o) : Log(o)[i].sender = "bot" }) = 1

\* the bot reply of request o was delivered to the client
ReplyDelivered(o) ==
  IF ops[o].channel = "http"
  THEN "botMessage" \in ops[o].response.fields
  ELSE \E i \in DOMAIN ops[o].events :
         ops[o].events[i].name = "new_message" /\ ops[o].events[i].payload.sender = "bot"

\* the crisis payload has reached the client of request o no later than the bot reply
CrisisPayloadDelivered(o) ==
  IF ops[o].channel = "http"
  THEN ops[o].response.fields \cap {"emergencyContacts", "crisisResources"} # {}
  ELSE \E i \in DOMAIN ops[o].events :
         /\ ops[o].events[i].name \in {"crisis_alert", "crisis_resources"}
         /\ \A j \in DOMAIN ops[o].events :
              (ops[o].events[j].name = "new_message"
                 /\ ops[o].events[j].payload.sender = "bot") => i < j

\* C9: when a request has recorded a CrisisAlert and delivered its bot reply,
\* the client has received the crisis payload alongside or before the reply.
C9_CrisisPayloadWithReply ==
  \A o \in OpIds :
    (ops[o].pc = "done" /\ AlertsOf(o) # {} /\ ReplyDelivered(o)) =>
      CrisisPayloadDelivered(o)

\* the caller of request o received an explicit error
ErrorReported(o) ==
  IF ops[o].channel = "http" THEN ops[o].response.status = 500
  ELSE "error" \in EventNames(o)

\* C10: when persisting the CrisisAlert failed, the caller receives an error
\* and no bot reply.
C10_AlertFailureReported ==
  \A o \in OpIds :
    (ops[o].pc = "done" /\ AiAnswered(o) /\ IsCrisis(ops[o].ai) /\ AlertsOf(o) = {}) =>
      (ErrorReported(o) /\ ~ReplyDelivered(o))

\* the bot message prescribed for a failed AI call: the fallback string of the
\* locale with metadata of sentiment neutral, confidence below 0.5, no keywords
IsFallbackReply(m, language) ==
  /\ m.sender = "bot"
  /\ m.content = getFallbackResponse(language).response
  /\ m.metadata.kind # "none"
  /\ m.metadata.sentiment = "neutral"
  /\ m.metadata.confidence < BaseConfidence
  /\ m.metadata.keywords = <<>>

\* C11: when the AI call of a processed message failed, the caller got a reply
\* and no error, the log holds the user message once, and every bot message
\* persisted or broadcast for the request is the locale's fallback reply.
C11_FallbackReplyOnAiFailure ==
  \A o \in OpIds :
    (ops[o].pc = "done" /\ Persisted(o) /\ AiFailed(o)) =>
      /\ ReplyDelivered(o) /\ ~ErrorReported(o)
      /\ Cardinality({ i \in Positions(o) : Log(o)[i].sender = "user" }) = 1
      /\ \A i \in Positions(o) :
           Log(o)[i].sender = "bot" => IsFallbackReply(Log(o)[i], ops[o].language)
      /\ \A i \in DOMAIN ops[o].events :
           (ops[o].events[i].name = "new_message" /\ ops[o].events[i].payload.sender = "bot")
             => IsFallbackReply(ops[o].events[i].payload, ops[o].language)

\* the severity the data model prescribes for a risk level
SeverityFor(level) ==
  IF level <= 2 THEN "low"
  ELSE IF level = 3 THEN "medium"
  ELSE IF level = 4 THEN "high"
  ELSE "critical"

\* C12: every CrisisAlert created from a chat message has the severity that
\* belongs to its risk level: 1-2 low, 3 medium, 4 high, 5 critical.
C12_SeverityFollowsLevel ==
  \A i \in DOMAIN alerts :
    alerts[i].op \in OpIds => alerts[i].severity = SeverityFor(alerts[i].riskLevel)

\* session sid exists and belongs to a user other than u
NonOwner(u, sid) == sid \in DOMAIN sessions /\ sessions[sid].userId # u

\* what every operation of another user on a session must do whatever its
\* answer is called: no data of the session, no change of any session or room
DeniedBy(u, sid, answers) ==
  LET untouched == sessions' = sessions /\ rooms' = rooms
  IN /\ (GetSession(u, sid) \/ DeleteSession(u, sid) \/ \E t \in Titles : PutSession(u, sid, t))
          => (reply'.status \in answers /\ reply'.session = 0 /\ untouched)
     /\ JoinChat(u, sid) => (reply'.status = "error" /\ reply'.session = 0 /\ untouched)
     /\ (\E c \in AccessContents : HttpReceive(1, u, sid, c, "text"))
          => (ops'[1].pc = "done" /\ Len(ops'[1].pushed) = 0
              /\ ops'[1].response.status \in { 403 } \cup (IF "404" \in answers THEN { 404 } ELSE {})
              /\ "botMessage" \notin ops'[1].response.fields
              /\ untouched)
     /\ (\E c \in AccessContents : handleSendMessage(1, u, sid, c, "text"))
          => (ops'[1].pc = "done" /\ Len(ops'[1].pushed) = 0
              /\ (\A i \in DOMAIN ops'[1].events : ops'[1].events[i].name = "error")
              /\ untouched)

Invalid(content, messageType) ==
  content = <<>> \/ TooLong(content) \/ messageType \notin {"text", "voice"}

\* C14: a request with invalid input is rejected at once in both channels: it
\* never waits for the AI, appends no message, broadcasts nothing to the room
\* and creates no CrisisAlert.
C14_InvalidInputRejected ==
  \A o \in OpIds :
    (ops[o].pc # "idle" /\ Invalid(ops[o].content, ops[o].messageType)) =>
      /\ ops[o].pc = "done"
      /\ ~Persisted(o)
      /\ \A i \in DOMAIN ops[o].events : ops[o].events[i].to # "room"
      /\ AlertsOf(o) = {}

\* the order of the alert statuses: active, then acknowledged, then resolved
\* or escalated
StatusRank(status) ==
  IF status = "active" THEN 1 ELSE IF status = "acknowledged" THEN 2 ELSE 3

\* C15: no step removes a CrisisAlert or moves its status backward.
C15_StatusForwardOnly ==
  [][\A id \in DOMAIN alerts :
       /\ id \in DOMAIN alerts'
       /\ StatusRank(alerts'[id].status) >= StatusRank(alerts[id].status)]_vars

\* C15 witness: an intervention request that read the alert as active has
\* saved its intervention, and the alert is acknowledged.
C15_Witness ==
  /\ pending.pc = "done" /\ pending.alert \in DOMAIN alerts
  /\ reply.name = "intervention" /\ reply.status = "200"
  /\ pending.status = "active"
  /\ alerts[pending.alert].status = "acknowledged"
  /\ Len(alerts[pending.alert].interventions) > 0

\* C16: no step removes a session or changes its owner, no step makes a closed
\* session active again, and a DELETE by the owner changes nothing but the
\* lifecycle state of that session, which it leaves closed.
C16_SoftDeleteOnly ==
  [][\A sid \in DOMAIN sessions :
       /\ sid \in DOMAIN sessions'
       /\ sessions'[sid].userId = sessions[sid].userId
       /\ ~sessions[sid].isActive => ~sessions'[sid].isActive
       /\ DeleteSession(sessions[sid].userId, sid)
            => /\ ~sessions'[sid].isActive
               /\ sessions' = [sessions EXCEPT ![sid].isActive = FALSE]
               /\ ~sessions[sid].isActive => sessions' = sessions]_vars

\* C16 witness: the owner's DELETE was answered 200, and the closed session,
\* which was renamed, holds the messages of a finished request.
C16_Witness ==
  /\ reply.name = "delete" /\ reply.status = "200"
  /\ \E o \in OpIds :
       /\ ops[o].pc = "done" /\ Persisted(o) /\ ops[o].sid = reply.id
       /\ ~sessions[reply.id].isActive
       /\ sessions[reply.id].title \in Titles

\* C17: every request that has passed validation and waits for the AI
\* eventually reaches its response: the bot reply is delivered or an error is
\* reported.
C17_EveryMessageAnswered ==
  \A o \in OpIds :
    (ops[o].pc = "ai") ~> (ReplyDelivered(o) \/ ErrorReported(o))

\* C18: after every step each room holds at most the owner of its session; a
\* user enters a room only by a join_chat on a session that is active and
\* theirs; and a join_chat on a session that is not theirs, does not exist or
\* is closed answers error and leaves every room as it was.
C18_RoomsHoldOwnersOnly ==
  [][\A sid \in SessionIds :
       /\ rooms'[sid] \subseteq
            (IF sid \in DOMAIN sessions' THEN {sessions'[sid].userId} ELSE {})
       /\ \A u \in Users :
            /\ (u \in rooms'[sid] /\ u \notin rooms[sid])
                 => (reply'.name = "join" /\ reply'.status = "chat_joined"
                     /\ reply'.user = u /\ reply'.id = sid
                     /\ sid \in DOMAIN sessions
                     /\ sessions[sid].userId = u /\ sessions[sid].isActive)
            /\ (JoinChat(u, sid)
                  /\ ~(sid \in DOMAIN sessions /\ sessions[sid].userId = u
                       /\ sessions[sid].isActive))
                 => (reply'.status = "error" /\ rooms' = rooms)]_vars

\* C18 witness: the owner, subscribed to the room of a session since closed,
\* sent join_chat for it again and was answered error.
C18_Witness ==
  /\ reply.name = "join" /\ reply.status = "error"
  /\ reply.id \in DOMAIN sessions
  /\ sessions[reply.id].userId = reply.user /\ ~sessions[reply.id].isActive
  /\ rooms[reply.id] = {reply.user}

\* the candidate severities of a text: the base severity of every phrase of
\* the table that occurs in the lower-cased text, and 3 for a matching pattern
Candidates(text, table) ==
  { getCrisisSeverity(phrase) :
      phrase \in { ph \in table : Includes(toLowerCase(text), ph) } }
  \cup (IF \E p \in crisisPatterns : Includes(toLowerCase(text), p) THEN {3} ELSE {})

\* C19: the level returned for (text, locale) is in 0..5 and is the greatest
\* candidate severity capped at 5, or 0 when there is none; a blank text gives 0.
\* (A locale without a table is classified with the English table.)
C19_LevelIsCappedMaximum ==
  probe.level # -1 =>
    LET table == IF probe.locale \in DOMAIN crisisKeywords
                 THEN crisisKeywords[probe.locale] ELSE crisisKeywords["en"]
        capped == { IF c > 5 THEN 5 ELSE c : c \in Candidates(probe.text, table) }
    IN /\ probe.level \in 0..5
       /\ \A c \in capped : c <= probe.level
       /\ probe.level \in capped \cup (IF capped = {} THEN {0} ELSE {})
       /\ probe.text = <<>> => probe.level = 0

\* C19 witness: a text written in upper case that holds a phrase of the table
\* of its locale was classified above 0.
C19_Witness ==
  /\ probe.level > 0
  /\ probe.text # toLowerCase(probe.text)
  /\ probe.locale \in DOMAIN crisisKeywords
  /\ \E ph \in crisisKeywords[probe.locale] : Includes(toLowerCase(probe.text), ph)

\* session.save() was rejected while request o was processed. Over HTTP that
\* is the only way to the answer 500. On the socket the AI reply with its
\* keywords was composed, so the handler reached the save of line 198, and
\* that reply was never broadcast, which follows every save that succeeds.
SessionSaveFailed(o) ==
  IF ops[o].channel = "http"
  THEN ops[o].response.status = 500
  ELSE /\ AiAnswered(o) /\ ops[o].ai.metadata.hasKeywords
       /\ ops[o].pc \in {"save2", "done"}
       /\ \A i \in DOMAIN ops[o].events :
            ops[o].events[i].name = "new_message" => ops[o].events[i].payload.metadata.kind # "ai"

\* C20: a request during which session.save() was rejected ends with an error
\* to the caller, without a bot reply delivered and without any of its
\* messages in the persisted log.
C20_SaveFailureIsFatal ==
  \A o \in OpIds :
    (ops[o].pc = "done" /\ SessionSaveFailed(o)) =>
      (ErrorReported(o) /\ ~ReplyDelivered(o) /\ ~Persisted(o))

\* the events of request o with the given name that were broadcast to the room
Broadcasts(o, name) ==
  { i \in DOMAIN ops[o].events : ops[o].events[i].name = name /\ ops[o].events[i].to = "room" }

\* a send_message event was processed successfully: the handler returned, the
\* messages of the request are in the log and no error event was sent
ProcessedOnSocket(o) ==
  /\ ops[o].channel = "socket" /\ ops[o].pc = "done"
  /\ Persisted(o) /\ "error" \notin EventNames(o)

\* C21: a send_message event processed successfully has caused exactly two
\* new_message broadcasts, the user's message and then one bot message, and a
\* crisis_resources broadcast exactly when the classifier level of the message
\* is >= 3 (then exactly one).
C21_TwoBroadcastsAndResources ==
  \A o \in OpIds :
    ProcessedOnSocket(o) =>
      /\ \E i, j \in Broadcasts(o, "new_message") :
           /\ i < j /\ Broadcasts(o, "new_message") = {i, j}
           /\ ops[o].events[i].payload.sender = "user"
           /\ ops[o].events[j].payload.sender = "bot"
      /\ Cardinality(Broadcasts(o, "crisis_resources"))
           = (IF Level(o) >= CrisisThreshold THEN 1 ELSE 0)

\* a persisted session and an alert as a client of the store reads them
Stored(doc) ==
  [doc EXCEPT !.messages = [i \in DOMAIN @ |-> [sender |-> @[i].sender, content |-> @[i].content,
                                                 messageType |-> @[i].messageType,
                                                 metadata |-> @[i].metadata]]]

StoredAlerts(o) ==
  { [userId |-> alerts[i].userId, triggerMessage |-> alerts[i].triggerMessage,
     severity |-> alerts[i].severity, riskLevel |-> alerts[i].riskLevel,
     status |-> alerts[i].status] : i \in AlertsOf(o) }

\* C22: when the same message was processed through the HTTP endpoint on one
\* session and through send_message on another that started in the same state,
\* with the same AI outcome, the two persisted sessions (log, context, title,
\* session type) are equal and the two requests created the same CrisisAlerts.
C22_ChannelsEquivalent ==
  (/\ ops[1].pc = "done" /\ ops[2].pc = "done"
   /\ ops[1].channel = "http" /\ ops[2].channel = "socket"
   /\ ops[1].content = ops[2].content /\ ops[1].messageType = ops[2].messageType
   /\ ops[1].ai = ops[2].ai)
    => /\ Stored(sessions[1]) = Stored(sessions[2])
       /\ StoredAlerts(1) = StoredAlerts(2)
       /\ Cardinality(AlertsOf(1)) = Cardinality(AlertsOf(2))

\* C23: every stored CrisisAlert has the severity that belongs to its risk
\* level, and the risk level of an alert created through POST /crisis/alert is
\* the classifier level of its triggerMessage in the language of its user,
\* whatever severity and riskLevel the caller sent.
C23_PostedAlertRederived ==
  \A i \in DOMAIN alerts :
    /\ alerts[i].severity = SeverityFor(alerts[i].riskLevel)
    /\ alerts[i].op = 0 =>
         alerts[i].riskLevel
           = detectCrisis(alerts[i].triggerMessage, preferredLanguage[alerts[i].userId])

\* message m is in the persisted log of the session of request o
InLog(o, m) ==
  /\ ops[o].sid \in DOMAIN sessions
  /\ \E i \in DOMAIN sessions[ops[o].sid].messages : sessions[ops[o].sid].messages[i] = m

\* C24: delivery follows persistence: every message broadcast as new_message
\* is in the persisted log of its session, and an HTTP response that carries
\* the user and bot messages is sent only when they are in the log.
C24_DeliveredOnlyAfterPersisted ==
  \A o \in OpIds :
    /\ \A i \in Broadcasts(o, "new_message") : InLog(o, ops[o].events[i].payload)
    /\ "botMessage" \in ops[o].response.fields => Persisted(o)

\* C25: no step appends a message to a closed session, and no step creates a
\* CrisisAlert for a request on a closed session.
C25_ClosedSessionIsFrozen ==
  [][\A sid \in DOMAIN sessions :
       ~sessions[sid].isActive =>
         /\ sessions'[sid].messages = sessions[sid].messages
         /\ \A i \in DOMAIN alerts' \ DOMAIN alerts :
              alerts'[i].op \in OpIds => ops[alerts'[i].op].sid # sid]_vars

StoredLevels(o) ==
  { Log(o)[i].metadata.crisisLevel :
      i \in { j \in Positions(o) : Log(o)[j].sender = "bot" /\ Log(o)[j].metadata.kind # "none" } }

C28_TypingEventuallyStops ==
  \A o \in OpIds :
    (Broadcasts(o, "bot_typing") # {})
      ~> (\E i \in Broadcasts(o, "bot_typing") :
            \E j \in Broadcasts(o, "bot_typing_stop") : i < j)

\* C29: the registry agrees with the live connections: isUserOnline(u) exactly
\* when u has a connected socket, and getActiveUsersCount is the number of
\* users with a connected socket.
C29_RegistryMatchesConnections ==
  /\ \A u \in Users : isUserOnline(u) <=> (SocketsOf(u) # {})
  /\ getActiveUsersCount = Cardinality({ u \in Users : SocketsOf(u) # {} })

\* C30: an event reaches the room of a session only from a connection of the
\* owner: a typing or read handler emits to the room of an existing session
\* only for its owner, and a message request has broadcast to the room only
\* when its user owns the session.
C30_OnlyOwnerReachesRoom ==
  [][/\ (emitted' # emitted /\ emitted'.room \in DOMAIN sessions)
          => sessions[emitted'.room].userId = emitted'.from
     /\ \A o \in OpIds : \A i \in DOMAIN ops'[o].events :
          ops'[o].events[i].to = "room"
            => (ops'[o].sid \in DOMAIN sessions /\ sessions[ops'[o].sid].userId = ops'[o].user)]_vars

====
